---- MODULE Spec2Model ----
(***************************************************************************)
(* Seek-and-track tuner controller (class RFQ, src/src/app/rfq_tuner.py).  *)
(*                                                                         *)
(* Reflection coefficients are integers in units of 0.0025, so that the    *)
(* defaults coef_min = 0.01 and coef_max = 0.05 are 4 and 20.  Distances   *)
(* are integers in units of 0.1 mm.  On these values the float test        *)
(* current_coef > previous_coef * 1.05 agrees with 100*cur > 105*prev.     *)
(*                                                                         *)
(* pc is the position of the single thread of control inside run_once and  *)
(* the functions it calls; every read of the coefficient and every move of *)
(* the tuner is one step.                                                  *)
(***************************************************************************)
EXTENDS Integers, Sequences, FiniteSets, TLC

VARIABLES
    state,          \* self.state: "idle", "seeking_direction", "tracking"
    pc,             \* position of the thread of control
    loop,           \* run_continuous: "none", "running", "interrupted", "raised"
    cycles,         \* number of run_once calls made so far
    coefficient,    \* run_once local: the reading of line 145
    initial_coef,   \* find_direction local
    coef_positive,  \* find_direction local
    coef_negative,  \* find_direction local
    direction,      \* value returned by find_direction
    previous_coef,  \* track_to_target local
    steps_taken,    \* track_to_target local
    success,        \* value returned by track_to_target
    moves,          \* move_relative calls of the current cycle (none once interrupted)
    entryState,     \* self.state when the current cycle was called
    ret,            \* how the last run_once ended
    abortPc,        \* position at which the last run_once was aborted
    lastRead,       \* value returned by the latest read_coefficient
    postReads,      \* readings taken after a tracking move, this invocation
    firstTargetIdx, \* index of the first such reading <= coef_min, or 0
    overshoot,      \* some such reading exceeded 1.05 * the reading before the move
    overshootHigh,  \* ... and was itself greater than coef_min
    everMoved,      \* a move was issued since construction
    allInBand,      \* every cycle so far started with a reading within the band
    exchanges,      \* per-axis exchanges of the latest move_relative call
    moveFailed,     \* an exchange of a completed move_relative call of this cycle failed
    readAfterFailedMove, \* the coefficient was read after such a call returned
    prevEnd,        \* how the cycle before the current one ended
    everRaised,     \* a cycle was aborted by an exception since construction
    crept           \* every post-move reading of this invocation was above coef_min
                    \* and within the tolerance of the reading before it, the
                    \* first one higher than it and no later one lower

vars == <<state, pc, loop, cycles, coefficient, initial_coef, coef_positive,
          coef_negative, direction, previous_coef, steps_taken, success, moves,
          entryState, ret, abortPc, lastRead, postReads, firstTargetIdx,
          overshoot, overshootHigh, everMoved, allInBand, exchanges,
          moveFailed, readAfterFailedMove, prevEnd, everRaised, crept>>

\* ---------------------------------------------------------------- constants
CoefMin == 4
CoefMax == 20
TestStep == 1
TrackingStep == 1
MaxSteps == 100

\* ---------------------------------------------------------------- bounds
MaxCoef == 21
MaxCycles == 2

\* Readings returned by read_coefficient: samples below, on and inside the band
\* [coef_min, coef_max], and every value from coef_max up to MaxCoef.
BandSamples == {0, CoefMin - 1, CoefMin, CoefMin + 1, CoefMax - 1}
Coefs == BandSamples \cup (CoefMax..MaxCoef)
\* "no value": differs from every coefficient, step count and direction
None == 0 - 2

IDLE == "idle"
SEEKING == "seeking_direction"
TRACKING == "tracking"
TunerState == {IDLE, SEEKING, TRACKING}

ReadPcs == {"ro_read", "fd_read_initial", "fd_read_positive", "fd_read_negative",
            "tt_read_initial", "tt_read_current"}
MovePcs == {"fd_move_positive", "fd_move_negative", "tt_move", "tt_back_off"}
Pcs == {"ready", "fd_return", "tt_return"} \cup ReadPcs \cup MovePcs

\* ---------------------------------------------------------------- helpers
InBandStrictUpper(c) == CoefMin <= c /\ c < CoefMax

\* run_once, line 147
InBand(c) == CoefMin <= c /\ c <= CoefMax

TooHighInverted(c) == c < CoefMin

\* run_once, line 156
TooHigh(c) == c > CoefMax

ImprovesOrEqual(coef, initial) == coef <= initial

\* find_direction, lines 82 and 94
Improves(coef, initial) == coef < initial

TargetReachedStrict(c) == c < CoefMin

\* track_to_target, line 125
TargetReached(c) == c <= CoefMin

WrongDirectionNoTolerance(current, previous) == current > previous

WrongDirectionLoose(current, previous) == 100 * current > 115 * previous

\* track_to_target, line 130
WrongDirection(current, previous) == 100 * current > 105 * previous

MoreStepsInverted(n) == n > MaxSteps

MoreStepsInclusive(n) == n <= MaxSteps

\* track_to_target, line 116
MoreSteps(n) == n < MaxSteps

StateForDirectionAlwaysTracking(d) == TRACKING

StateForDirectionIdle(d) == IDLE

StateForDirectionKeepsSeeking(d) == IF d = 0 THEN IDLE ELSE SEEKING

\* run_once, lines 165-172
StateForDirection(d) == IF d = 0 THEN IDLE ELSE TRACKING

NegativeProbeToOrigin == (0 - 1) * TestStep

\* find_direction, line 91
NegativeProbeDistance == (0 - 2) * TestStep

MoveReversed(kind, distance) == [kind |-> kind, delta |-> 0 - distance]

LoopSwallowsException(l) == l

\* run_continuous, lines 194-196: an exception of a cycle is logged and re-raised
LoopOnException(l) == IF l = "running" THEN "raised" ELSE l

\* move_tuner, lines 57-64
Move(kind, distance) == [kind |-> kind, delta |-> distance]

\* ---------------------------------------------------------------- TunerMotorAdapter
\* move_relative, line 74
Axes == <<"A", "B", "C", "D", "E", "F", "G", "H">>
NumAxes == Len(Axes)

\* move_relative, lines 78-82: the command is a dict, never serialised
Command(axis, distance) ==
    [type |-> "dict", action |-> "MOVE_REL", axis |-> axis, delta |-> distance]

\* _send_tcp_command, lines 44-62.  A failed connect raises inside the try
\* block; after a connect, command.encode (line 51) raises AttributeError for
\* every command that is not a str, before sendall; an empty response gives
\* None.  Every exception is logged and None is returned.
SendTcpCommand(command, connected, response) ==
    IF ~connected
       THEN [sent |-> FALSE, result |-> "None"]
       ELSE IF command.type # "str"
               THEN [sent |-> FALSE, result |-> "None"]
               ELSE IF response = ""
                       THEN [sent |-> TRUE, result |-> "None"]
                       ELSE [sent |-> TRUE, result |-> response]

\* move_relative, lines 76-84: the exchanges for the first n axes, in the order
\* of the list, each completed before the next starts; the value returned by
\* _send_tcp_command is ignored.  The outcome of an exchange is the same for
\* every connection state and response, so one choice stands for all axes.
MoveRelative(distance, n, connected, response) ==
    [i \in 1..n |->
        LET r == SendTcpCommand(Command(Axes[i], distance), connected, response)
        IN [axis |-> Axes[i], delta |-> distance, sent |-> r.sent,
            acked |-> r.result # "None"]]

TrackDistanceReversed(d) == (0 - d) * TrackingStep

\* track_to_target, line 118
TrackDistance(d) == d * TrackingStep

\* track_to_target, line 135
BackOffDistance(d) == (0 - d) * TrackingStep

\* the distance passed to move_tuner at lines 78, 91, 118 and 135
PendingDistance ==
    CASE pc = "fd_move_positive" -> TestStep
      [] pc = "fd_move_negative" -> NegativeProbeDistance
      [] pc = "tt_move" -> TrackDistance(direction)
      [] pc = "tt_back_off" -> BackOffDistance(direction)

\* ---------------------------------------------------------------- initial state
Init ==
    /\ state = IDLE
    /\ pc = "ready"
    /\ loop = "none"
    /\ cycles = 0
    /\ coefficient = None
    /\ initial_coef = None
    /\ coef_positive = None
    /\ coef_negative = None
    /\ direction = None
    /\ previous_coef = None
    /\ steps_taken = None
    /\ success = "none"
    /\ moves = <<>>
    /\ entryState = IDLE
    /\ ret = "none"
    /\ abortPc = "none"
    /\ lastRead = None
    /\ postReads = 0
    /\ firstTargetIdx = 0
    /\ overshoot = FALSE
    /\ overshootHigh = FALSE
    /\ everMoved = FALSE
    /\ allInBand = TRUE
    /\ exchanges = <<>>
    /\ moveFailed = FALSE
    /\ readAfterFailedMove = FALSE
    /\ prevEnd = "none"
    /\ everRaised = FALSE
    /\ crept = FALSE

\* ---------------------------------------------------------------- run_continuous
\* run_continuous, lines 185-188: the caller starts the loop
RunContinuous ==
    /\ pc = "ready"
    /\ loop = "none"
    /\ cycles = 0
    /\ loop' = "running"
    /\ UNCHANGED <<state, pc, cycles, coefficient, initial_coef, coef_positive,
                   coef_negative, direction, previous_coef, steps_taken, success,
                   moves, entryState, ret, abortPc, lastRead, postReads,
                   firstTargetIdx, overshoot, overshootHigh, everMoved, allInBand,
                   exchanges, moveFailed, readAfterFailedMove,
                   prevEnd, everRaised, crept>>

\* run_once is called: by the loop (line 189) or directly by the caller
RunOnceCall ==
    /\ pc = "ready"
    /\ loop \in {"none", "running"}
    /\ cycles < MaxCycles
    /\ pc' = "ro_read"
    /\ cycles' = cycles + 1
    /\ entryState' = state
    /\ ret' = "none"
    /\ abortPc' = "none"
    /\ moves' = <<>>
    /\ coefficient' = None
    /\ direction' = None
    /\ success' = "none"
    /\ exchanges' = <<>>
    /\ moveFailed' = FALSE
    /\ readAfterFailedMove' = FALSE
    /\ prevEnd' = IF ret = "returned" /\ direction = 0
                    THEN "undetermined"
                    ELSE IF ret = "returned" /\ success = "false"
                            THEN IF moves[Len(moves)].kind = "backoff"
                                    THEN "backoff" ELSE "bound"
                            ELSE "other"
    /\ UNCHANGED <<state, loop, initial_coef, coef_positive, coef_negative,
                   previous_coef, steps_taken, lastRead, postReads,
                   firstTargetIdx, overshoot, overshootHigh, everMoved, allInBand, everRaised, crept>>

\* ---------------------------------------------------------------- run_once
\* run_once, lines 145-162
RunOnceRead ==
    /\ pc = "ro_read"
    /\ \E c \in Coefs :
        /\ coefficient' = c
        /\ lastRead' = c
        /\ allInBand' = (allInBand /\ CoefMin <= c /\ c <= CoefMax)
        /\ IF InBand(c)
              THEN /\ state' = IDLE
                   /\ pc' = "ready"
                   /\ ret' = "returned"
              ELSE IF TooHigh(c)
                      THEN /\ state' = SEEKING
                           /\ pc' = "fd_read_initial"
                           /\ ret' = ret
                      ELSE /\ state' = state
                           /\ pc' = "ready"
                           /\ ret' = "returned"
    /\ UNCHANGED <<loop, cycles, initial_coef, coef_positive, coef_negative,
                   direction, previous_coef, steps_taken, success, moves,
                   entryState, abortPc, postReads, firstTargetIdx, overshoot, overshootHigh,
                   everMoved,
                   exchanges, moveFailed, readAfterFailedMove,
                   prevEnd, everRaised, crept>>

\* ---------------------------------------------------------------- find_direction
\* find_direction, lines 74-75
FindDirectionReadInitial ==
    /\ pc = "fd_read_initial"
    /\ \E c \in Coefs :
        /\ initial_coef' = c
        /\ lastRead' = c
    /\ pc' = "fd_move_positive"
    /\ UNCHANGED <<state, loop, cycles, coefficient, coef_positive, coef_negative,
                   direction, previous_coef, steps_taken, success, moves,
                   entryState, ret, abortPc, postReads, firstTargetIdx, overshoot, overshootHigh,
                   everMoved, allInBand,
                   exchanges, moveFailed, readAfterFailedMove,
                   prevEnd, everRaised, crept>>

\* find_direction, lines 78-79
FindDirectionMovePositive ==
    /\ pc = "fd_move_positive"
    /\ moves' = Append(moves, Move("probe", TestStep))
    /\ everMoved' = TRUE
    /\ pc' = "fd_read_positive"
    /\ \E connected \in BOOLEAN, response \in {"", "ack"} :
        LET log == MoveRelative(TestStep, NumAxes, connected, response)
        IN /\ exchanges' = log
           /\ moveFailed' = (moveFailed \/ \E i \in 1..Len(log) : ~log[i].acked)
    /\ UNCHANGED <<state, loop, cycles, coefficient, initial_coef, coef_positive,
                   coef_negative, direction, previous_coef, steps_taken, success,
                   entryState, ret, abortPc, lastRead, postReads, firstTargetIdx,
                   overshoot, overshootHigh, allInBand, readAfterFailedMove,
                   prevEnd, everRaised, crept>>

\* find_direction, lines 80-88
FindDirectionReadPositive ==
    /\ pc = "fd_read_positive"
    /\ \E c \in Coefs :
        /\ coef_positive' = c
        /\ lastRead' = c
        /\ IF Improves(c, initial_coef)
              THEN /\ direction' = 1
                   /\ pc' = "fd_return"
              ELSE /\ direction' = direction
                   /\ pc' = "fd_move_negative"
    /\ readAfterFailedMove' = (readAfterFailedMove \/ moveFailed)
    /\ UNCHANGED <<state, loop, cycles, coefficient, initial_coef, coef_negative,
                   previous_coef, steps_taken, success, moves, entryState, ret,
                   abortPc, postReads, firstTargetIdx, overshoot, overshootHigh, everMoved,
                   allInBand,
                   exchanges, moveFailed,
                   prevEnd, everRaised, crept>>

\* find_direction, line 91
FindDirectionMoveNegative ==
    /\ pc = "fd_move_negative"
    /\ moves' = Append(moves, Move("probe", NegativeProbeDistance))
    /\ everMoved' = TRUE
    /\ pc' = "fd_read_negative"
    /\ \E connected \in BOOLEAN, response \in {"", "ack"} :
        LET log == MoveRelative(NegativeProbeDistance, NumAxes, connected, response)
        IN /\ exchanges' = log
           /\ moveFailed' = (moveFailed \/ \E i \in 1..Len(log) : ~log[i].acked)
    /\ UNCHANGED <<state, loop, cycles, coefficient, initial_coef, coef_positive,
                   coef_negative, direction, previous_coef, steps_taken, success,
                   entryState, ret, abortPc, lastRead, postReads, firstTargetIdx,
                   overshoot, overshootHigh, allInBand, readAfterFailedMove,
                   prevEnd, everRaised, crept>>

\* find_direction, lines 92-103
FindDirectionReadNegative ==
    /\ pc = "fd_read_negative"
    /\ \E c \in Coefs :
        /\ coef_negative' = c
        /\ lastRead' = c
        /\ direction' = IF Improves(c, initial_coef) THEN 0 - 1 ELSE 0
    /\ pc' = "fd_return"
    /\ readAfterFailedMove' = (readAfterFailedMove \/ moveFailed)
    /\ UNCHANGED <<state, loop, cycles, coefficient, initial_coef, coef_positive,
                   previous_coef, steps_taken, success, moves, entryState, ret,
                   abortPc, postReads, firstTargetIdx, overshoot, overshootHigh, everMoved,
                   allInBand,
                   exchanges, moveFailed,
                   prevEnd, everRaised, crept>>

\* run_once, lines 163-172: find_direction has returned
RunOnceDirection ==
    /\ pc = "fd_return"
    /\ state' = StateForDirection(direction)
    /\ IF direction = 0
          THEN /\ pc' = "ready"
               /\ ret' = "returned"
          ELSE /\ pc' = "tt_read_initial"
               /\ ret' = ret
    /\ initial_coef' = None
    /\ coef_positive' = None
    /\ coef_negative' = None
    /\ postReads' = 0
    /\ firstTargetIdx' = 0
    /\ overshoot' = FALSE
    /\ overshootHigh' = FALSE
    /\ crept' = FALSE
    /\ UNCHANGED <<loop, cycles, coefficient, direction, previous_coef,
                   steps_taken, success, moves, entryState, abortPc, lastRead,
                   everMoved, allInBand,
                   exchanges, moveFailed, readAfterFailedMove,
                   prevEnd, everRaised>>

\* ---------------------------------------------------------------- track_to_target
\* track_to_target, lines 112-116
TrackReadInitial ==
    /\ pc = "tt_read_initial"
    /\ \E c \in Coefs :
        /\ previous_coef' = c
        /\ lastRead' = c
    /\ steps_taken' = 0
    /\ pc' = IF MoreSteps(0) THEN "tt_move" ELSE "tt_return"
    /\ success' = IF MoreSteps(0) THEN success ELSE "false"
    /\ readAfterFailedMove' = (readAfterFailedMove \/ moveFailed)
    /\ crept' = FALSE
    /\ UNCHANGED <<state, loop, cycles, coefficient, initial_coef, coef_positive,
                   coef_negative, direction, moves, entryState, ret, abortPc,
                   postReads, firstTargetIdx, overshoot, overshootHigh, everMoved, allInBand,
                   exchanges, moveFailed,
                   prevEnd, everRaised>>

\* track_to_target, line 118
TrackMove ==
    /\ pc = "tt_move"
    /\ moves' = Append(moves, Move("track", TrackDistance(direction)))
    /\ everMoved' = TRUE
    /\ pc' = "tt_read_current"
    /\ \E connected \in BOOLEAN, response \in {"", "ack"} :
        LET log == MoveRelative(TrackDistance(direction), NumAxes, connected, response)
        IN /\ exchanges' = log
           /\ moveFailed' = (moveFailed \/ \E i \in 1..Len(log) : ~log[i].acked)
    /\ UNCHANGED <<state, loop, cycles, coefficient, initial_coef, coef_positive,
                   coef_negative, direction, previous_coef, steps_taken, success,
                   entryState, ret, abortPc, lastRead, postReads, firstTargetIdx,
                   overshoot, overshootHigh, allInBand, readAfterFailedMove,
                   prevEnd, everRaised, crept>>

\* track_to_target, lines 119-141
TrackReadCurrent ==
    /\ pc = "tt_read_current"
    /\ \E c \in Coefs :
        /\ lastRead' = c
        /\ postReads' = postReads + 1
        /\ firstTargetIdx' = IF firstTargetIdx = 0 /\ c <= CoefMin
                                THEN postReads + 1 ELSE firstTargetIdx
        /\ overshoot' = (overshoot \/ 100 * c > 105 * lastRead)
        /\ overshootHigh' = (overshootHigh \/ (100 * c > 105 * lastRead /\ c > CoefMin))
        /\ crept' = (/\ postReads = 0 \/ crept
                     /\ c > CoefMin
                     /\ 100 * c <= 105 * lastRead
                     /\ IF postReads = 0 THEN c > lastRead ELSE c >= lastRead)
        /\ steps_taken' = steps_taken + 1
        /\ IF TargetReached(c)
              THEN /\ success' = "true"
                   /\ pc' = "tt_return"
                   /\ previous_coef' = previous_coef
              ELSE IF WrongDirection(c, previous_coef)
                      THEN /\ success' = success
                           /\ pc' = "tt_back_off"
                           /\ previous_coef' = previous_coef
                      ELSE /\ previous_coef' = c
                           /\ IF MoreSteps(steps_taken + 1)
                                 THEN /\ pc' = "tt_move"
                                      /\ success' = success
                                 ELSE /\ pc' = "tt_return"
                                      /\ success' = "false"
    /\ readAfterFailedMove' = (readAfterFailedMove \/ moveFailed)
    /\ UNCHANGED <<state, loop, cycles, coefficient, initial_coef, coef_positive,
                   coef_negative, direction, moves, entryState, ret, abortPc,
                   everMoved, allInBand,
                   exchanges, moveFailed,
                   prevEnd, everRaised>>

\* track_to_target, lines 135-136
TrackBackOff ==
    /\ pc = "tt_back_off"
    /\ moves' = Append(moves, Move("backoff", BackOffDistance(direction)))
    /\ everMoved' = TRUE
    /\ success' = "false"
    /\ pc' = "tt_return"
    /\ \E connected \in BOOLEAN, response \in {"", "ack"} :
        LET log == MoveRelative(BackOffDistance(direction), NumAxes, connected, response)
        IN /\ exchanges' = log
           /\ moveFailed' = (moveFailed \/ \E i \in 1..Len(log) : ~log[i].acked)
    /\ UNCHANGED <<state, loop, cycles, coefficient, initial_coef, coef_positive,
                   coef_negative, direction, previous_coef, steps_taken,
                   entryState, ret, abortPc, lastRead, postReads, firstTargetIdx,
                   overshoot, overshootHigh, allInBand, readAfterFailedMove,
                   prevEnd, everRaised, crept>>

\* run_once, lines 173-177: track_to_target has returned
RunOnceTracked ==
    /\ pc = "tt_return"
    /\ pc' = "ready"
    /\ ret' = "returned"
    /\ previous_coef' = None
    /\ steps_taken' = None
    /\ postReads' = 0
    /\ firstTargetIdx' = 0
    /\ overshoot' = FALSE
    /\ overshootHigh' = FALSE
    /\ crept' = FALSE
    /\ UNCHANGED <<state, loop, cycles, coefficient, initial_coef, coef_positive,
                   coef_negative, direction, success, moves, entryState, abortPc,
                   lastRead, everMoved, allInBand,
                   exchanges, moveFailed, readAfterFailedMove,
                   prevEnd, everRaised>>

\* ---------------------------------------------------------------- exceptions
\* read_coefficient (line 55) raises: the exception leaves run_once, and
\* run_continuous logs and re-raises it (lines 194-196)
ReadRaises ==
    /\ pc \in ReadPcs
    /\ pc' = "ready"
    /\ ret' = "raised"
    /\ abortPc' = pc
    /\ loop' = LoopOnException(loop)
    /\ allInBand' = IF pc = "ro_read" THEN FALSE ELSE allInBand
    /\ initial_coef' = None
    /\ coef_positive' = None
    /\ coef_negative' = None
    /\ previous_coef' = None
    /\ steps_taken' = None
    /\ postReads' = 0
    /\ firstTargetIdx' = 0
    /\ overshoot' = FALSE
    /\ overshootHigh' = FALSE
    /\ crept' = FALSE
    /\ everRaised' = TRUE
    /\ UNCHANGED <<state, cycles, coefficient, direction, success, moves,
                   entryState, lastRead, everMoved,
                   exchanges, moveFailed, readAfterFailedMove,
                   prevEnd>>

\* KeyboardInterrupt while run_continuous runs (lines 192-193): it is raised
\* wherever the thread is, inside a cycle or in the sleep between two cycles,
\* and in a move_relative call after any number of its exchanges; it unwinds
\* every frame, and run_continuous returns.
KeyboardInterrupt ==
    /\ loop = "running"
    /\ loop' = "interrupted"
    /\ pc' = "ready"
    /\ ret' = IF pc = "ready" THEN ret ELSE "interrupted"
    /\ abortPc' = IF pc = "ready" THEN abortPc ELSE pc
    /\ everRaised' = (everRaised \/ pc # "ready")
    /\ IF pc \in MovePcs
          THEN \E k \in 0..(NumAxes - 1) :
                   \E connected \in BOOLEAN, response \in {"", "ack"} :
                       exchanges' = MoveRelative(PendingDistance, k, connected,
                                                 response)
          ELSE exchanges' = exchanges
    /\ IF pc = "ready"
          THEN UNCHANGED <<coefficient, direction, success, moves, lastRead>>
          ELSE /\ coefficient' = None
               /\ direction' = None
               /\ success' = "none"
               /\ moves' = <<>>
               /\ lastRead' = None
    /\ initial_coef' = None
    /\ coef_positive' = None
    /\ coef_negative' = None
    /\ previous_coef' = None
    /\ steps_taken' = None
    /\ postReads' = 0
    /\ firstTargetIdx' = 0
    /\ overshoot' = FALSE
    /\ overshootHigh' = FALSE
    /\ crept' = FALSE
    /\ UNCHANGED <<state, cycles, entryState, everMoved, allInBand, moveFailed,
                   readAfterFailedMove, prevEnd>>

Next ==
    \/ RunContinuous
    \/ RunOnceCall
    \/ RunOnceRead
    \/ FindDirectionReadInitial
    \/ FindDirectionMovePositive
    \/ FindDirectionReadPositive
    \/ FindDirectionMoveNegative
    \/ FindDirectionReadNegative
    \/ RunOnceDirection
    \/ TrackReadInitial
    \/ TrackMove
    \/ TrackReadCurrent
    \/ TrackBackOff
    \/ RunOnceTracked
    \/ ReadRaises
    \/ KeyboardInterrupt

Spec == Init /\ [][Next]_vars

\* Fairness: every call of the collaborators returns or raises, and the single
\* thread of control keeps running.
FairSpec == Spec /\ WF_vars(Next)

\* ---------------------------------------------------------------- properties
CountKind(k) == Cardinality({i \in 1..Len(moves) : moves[i].kind = k})

RECURSIVE SumDeltas(_)
SumDeltas(s) == IF s = <<>> THEN 0 ELSE Head(s).delta + SumDeltas(Tail(s))

Returned == pc = "ready" /\ ret = "returned"

TrackPcs == {"tt_read_initial", "tt_move", "tt_read_current", "tt_back_off",
             "tt_return"}

\* C1: a cycle whose first reading c satisfies coef_min <= c <= coef_max has
\* returned right after that reading, with no move issued and state Idle,
\* whatever the state was at the call; and as long as every cycle so far
\* started within the band, no move has been issued at all.
C1_InBandNoMoveIdle ==
    /\ (coefficient # None /\ CoefMin <= coefficient /\ coefficient <= CoefMax)
          => (Returned /\ moves = <<>> /\ state = IDLE)
    /\ allInBand => ~everMoved

C1_Witness ==
    /\ Returned
    /\ coefficient = CoefMax
    /\ entryState = TRACKING
    /\ state = IDLE
    /\ moves = <<>>

\* C2 (as stated): when run_once returns after its tracking phase, the state
\* is Idle.
C2_TrackingEndsIdle ==
    (Returned /\ success # "none") => state = IDLE

\* C2 (amended): the state is Tracking during the whole tracking phase and is
\* still Tracking when run_once returns after it, whether tracking converged,
\* backed off or reached the step bound.
C2_TrackingEndsTracking ==
    /\ pc \in TrackPcs => state = TRACKING
    /\ (Returned /\ success # "none") => state = TRACKING

C2_Witness ==
    /\ Returned
    /\ success = "false"
    /\ moves # <<>>
    /\ moves[Len(moves)].kind = "backoff"
    /\ state = TRACKING

\* C3 (as stated): in a cycle whose first reading is above coef_max, both probe
\* moves (+test_step, then -2*test_step) precede every tracking move.
C3_BothProbesBeforeTracking ==
    \A i \in 1..Len(moves) :
        moves[i].kind = "track"
            => /\ i > 2
               /\ moves[1] = [kind |-> "probe", delta |-> TestStep]
               /\ moves[2] = [kind |-> "probe", delta |-> (0 - 2) * TestStep]

\* C3 (amended): moves are issued only in a cycle whose first reading is above
\* coef_max; the first move of such a cycle is the probe +test_step, so at
\* least that probe precedes every tracking move, and the probe -2*test_step
\* precedes them too exactly when the direction is Negative.
C3_ProbeBeforeTracking ==
    /\ moves # <<>>
          => /\ coefficient > CoefMax
             /\ moves[1] = [kind |-> "probe", delta |-> TestStep]
    /\ \A i \in 1..Len(moves) :
          moves[i].kind = "track"
              => /\ i > 1
                 /\ direction \in {0 - 1, 1}
                 /\ direction = 1 => moves[2].kind = "track"
                 /\ direction = 0 - 1
                       => /\ i > 2
                          /\ moves[2] = [kind |-> "probe",
                                         delta |-> (0 - 2) * TestStep]

C3_Witness ==
    /\ Len(moves) = 2
    /\ direction = 1
    /\ moves[1].kind = "probe"
    /\ moves[2].kind = "track"

\* C4: a cycle called in state Seeking or Tracking whose first reading is below
\* coef_min returns with no move issued and state Idle.
C4_BelowMinReturnsIdle ==
    (/\ Returned
     /\ coefficient # None
     /\ coefficient < CoefMin
     /\ entryState \in {SEEKING, TRACKING})
        => (moves = <<>> /\ state = IDLE)

\* C5 (as stated): when track_to_target returns after some post-move reading
\* exceeded 1.05 times the reading taken before that move, it returns False
\* and its last move is its only back-off move.
C5_OvershootBacksOff ==
    (pc = "tt_return" /\ overshoot)
        => /\ success = "false"
           /\ CountKind("backoff") = 1
           /\ moves[Len(moves)] = [kind |-> "backoff",
                                   delta |-> (0 - direction) * TrackingStep]

\* C5 (amended): the same, for a post-move reading that exceeded 1.05 times the
\* reading before the move and was itself greater than coef_min; such a
\* reading is always followed at once by the back-off.
C5_OvershootAboveMinBacksOff ==
    /\ overshootHigh => pc \in {"tt_back_off", "tt_return"}
    /\ (pc = "tt_return" /\ overshootHigh)
          => /\ success = "false"
             /\ CountKind("backoff") = 1
             /\ moves[Len(moves)] = [kind |-> "backoff",
                                     delta |-> (0 - direction) * TrackingStep]

C5_Witness ==
    /\ pc = "tt_return"
    /\ overshootHigh
    /\ postReads = 3
    /\ CountKind("track") = 3
    /\ CountKind("backoff") = 1
    /\ success = "false"

\* C6 (as stated): one invocation of track_to_target issues at most
\* max_steps moves.
C6_AtMostMaxStepsMoves ==
    CountKind("track") + CountKind("backoff") <= MaxSteps

\* C6 (amended): one invocation of track_to_target issues at most max_steps
\* forward moves and at most one back-off move (max_steps + 1 moves in all),
\* every forward move is counted by steps_taken, which is below max_steps
\* whenever another forward move is about to be issued; and every invocation
\* of track_to_target ends.
C6_BoundedMoves ==
    /\ CountKind("track") <= MaxSteps
    /\ CountKind("backoff") <= 1
    /\ pc \in {"tt_move", "tt_back_off"} => steps_taken = CountKind("track")
    /\ pc = "tt_read_current" => steps_taken + 1 = CountKind("track")
    /\ pc = "tt_move" => steps_taken < MaxSteps

C6_TrackTerminates ==
    /\ []C6_BoundedMoves
    /\ (pc = "tt_read_initial") ~> (pc = "ready")

C6_Witness ==
    /\ pc = "tt_return"
    /\ CountKind("track") = MaxSteps
    /\ CountKind("backoff") = 1

\* C7: track_to_target returns True iff some reading taken after one of its
\* moves was <= coef_min; then the number of tracking moves is the index of
\* the first such reading, that reading is the last one taken, and there is
\* no back-off move.
C7_ConvergedIffTargetRead ==
    pc = "tt_return"
        => /\ success \in {"true", "false"}
           /\ (success = "true") <=> (firstTargetIdx # 0)
           /\ success = "true"
                 => /\ CountKind("track") = firstTargetIdx
                    /\ postReads = firstTargetIdx
                    /\ CountKind("backoff") = 0
                    /\ moves[Len(moves)].kind = "track"
                    /\ lastRead <= CoefMin

C7_Witness ==
    /\ pc = "tt_return"
    /\ success = "true"
    /\ firstTargetIdx = 4
    /\ lastRead = CoefMin

\* C8: when find_direction returns, its result is +1 iff the reading after the
\* positive probe is strictly below the initial reading, -1 iff it is not and
\* the reading after the negative probe is strictly below the initial reading,
\* and 0 iff neither is.
C8_DirectionFromReadings ==
    pc = "fd_return"
        => /\ direction \in {0 - 1, 0, 1}
           /\ (direction = 1) <=> (coef_positive < initial_coef)
           /\ (direction = 0 - 1)
                 <=> /\ ~(coef_positive < initial_coef)
                     /\ coef_negative # None
                     /\ coef_negative < initial_coef
           /\ (direction = 0)
                 <=> /\ ~(coef_positive < initial_coef)
                     /\ coef_negative # None
                     /\ ~(coef_negative < initial_coef)
           /\ direction = 1 => coef_negative = None

C8_Witness ==
    /\ pc = "fd_return"
    /\ direction = 0
    /\ coef_positive = initial_coef
    /\ coef_negative = initial_coef

\* C9: when find_direction returns it has issued at most 3 moves: only
\* +test_step when the result is +1 (net displacement +test_step), and
\* +test_step then -2*test_step otherwise (net displacement -test_step).
C9_ProbeDisplacement ==
    pc = "fd_return"
        => /\ Len(moves) <= 3
           /\ direction = 1
                 => /\ moves = <<[kind |-> "probe", delta |-> TestStep]>>
                    /\ SumDeltas(moves) = TestStep
           /\ direction \in {0 - 1, 0}
                 => /\ moves = <<[kind |-> "probe", delta |-> TestStep],
                                 [kind |-> "probe", delta |-> (0 - 2) * TestStep]>>
                    /\ SumDeltas(moves) = 0 - TestStep

C9_Witness ==
    /\ pc = "fd_return"
    /\ direction = 0
    /\ Len(moves) = 2
    /\ SumDeltas(moves) = 0 - TestStep

\* C10: when the read at the start of a cycle fails, no move has been issued in
\* that cycle and the continuous loop has not stopped.
C10_ReadFailureNotFatal ==
    (ret = "raised" /\ abortPc = "ro_read")
        => (moves = <<>> /\ loop # "raised")

FdPcs == {"fd_read_initial", "fd_move_positive", "fd_read_positive",
          "fd_move_negative", "fd_read_negative", "fd_return"}

\* C11: when an axis exchange of a move_relative call has failed, the call does
\* not return normally: the cycle is aborted by the failure, and the
\* coefficient is never read after such a call.
C11_MoveFailureAborts ==
    /\ moveFailed => (pc = "ready" /\ ret = "raised")
    /\ ~readAfterFailedMove

\* C12: the continuous loop never stops on cancellation in the middle of the
\* fan-out of a move, with the exchanges of some axes done and the others not.
C12_NoInterruptedMove ==
    (loop = "interrupted" /\ ret = "interrupted")
        => ~(/\ abortPc \in MovePcs
             /\ 0 < Len(exchanges)
             /\ Len(exchanges) < NumAxes)

\* C13: after a cycle that returned with no direction found or with tracking
\* not converged the loop has not stopped with an error, and while it runs the
\* next cycle can be called; after a cycle that raised, a running loop has
\* stopped with that error and calls no further cycle.
C13_OutcomesVsErrors ==
    /\ (Returned /\ (direction = 0 \/ success = "false"))
          => /\ loop # "raised"
             /\ (loop = "running" /\ cycles < MaxCycles) => ENABLED RunOnceCall
    /\ ret = "raised" => loop \in {"none", "raised"}
    /\ loop = "raised" => (pc = "ready" /\ ret = "raised" /\ ~ENABLED RunOnceCall)

C13_Witness ==
    /\ Returned
    /\ loop = "running"
    /\ cycles = 2
    /\ prevEnd = "backoff"
    /\ direction = 0

\* C14: in a cycle that follows one ended by an Undetermined direction, a
\* back-off or the step bound, a first reading above coef_max puts the state
\* to Seeking and starts find_direction, whatever state the earlier cycle left:
\* the cycle is inside find_direction in state Seeking, or was aborted by its
\* first read, or has issued the probe +test_step as its first move.
C14_RetryAfterFailure ==
    (/\ prevEnd \in {"undetermined", "backoff", "bound"}
     /\ coefficient # None
     /\ coefficient > CoefMax)
        => \/ pc \in FdPcs /\ state = SEEKING
           \/ /\ ret = "raised"
              /\ abortPc = "fd_read_initial"
              /\ state = SEEKING
           \/ /\ moves # <<>>
              /\ moves[1] = [kind |-> "probe", delta |-> TestStep]

C14_Witness ==
    /\ prevEnd = "bound"
    /\ entryState = TRACKING
    /\ coefficient > CoefMax
    /\ pc = "fd_read_positive"
    /\ state = SEEKING

\* C15: the state is Seeking during the whole of find_direction and no
\* tracking or back-off move is issued there; once find_direction has returned
\* 0 the cycle issues no tracking or back-off move, the state is never
\* Tracking, and run_once returns at once with state Idle.
C15_UndeterminedTerminal ==
    /\ pc \in FdPcs
          => /\ state = SEEKING
             /\ CountKind("track") = 0
             /\ CountKind("backoff") = 0
    /\ direction = 0
          => /\ pc \in {"fd_return", "ready"}
             /\ CountKind("track") = 0
             /\ CountKind("backoff") = 0
             /\ state # TRACKING
             /\ pc = "ready" => (ret = "returned" /\ state = IDLE)

C15_Witness ==
    /\ Returned
    /\ direction = 0
    /\ state = IDLE
    /\ Len(moves) = 2

\* C16: in a cycle whose first reading is above coef_max, a positive-probe
\* reading strictly below the initial reading and above coef_min gives
\* direction +1; and when a cycle with direction +1 returns, its second move is
\* a tracking move of +tracking_step and the state is Tracking.
C16_PositiveProbeTracks ==
    /\ (/\ pc = "fd_return"
        /\ coef_positive < initial_coef
        /\ coef_positive > CoefMin)
          => (direction = 1 /\ coefficient > CoefMax)
    /\ (Returned /\ direction = 1)
          => /\ coefficient > CoefMax
             /\ Len(moves) >= 2
             /\ moves[2] = [kind |-> "track", delta |-> TrackingStep]
             /\ state = TRACKING

C16_Witness ==
    /\ Returned
    /\ direction = 1
    /\ lastRead > CoefMin
    /\ Len(moves) >= 2
    /\ moves[2].kind = "track"
    /\ state = TRACKING

\* C17: a completed move_relative call has sent exactly one MOVE_REL command
\* per axis, in the order A..H, each carrying the distance of the call.
C17_OneCommandPerAxis ==
    (exchanges # <<>> /\ loop # "interrupted")
        => /\ Len(exchanges) = NumAxes
           /\ \A i \in 1..Len(exchanges) :
                 /\ exchanges[i].axis = Axes[i]
                 /\ exchanges[i].delta = moves[Len(moves)].delta
                 /\ exchanges[i].sent

C19_FirstMoveUnconditional ==
    /\ (\/ pc \in {"tt_read_current", "tt_back_off", "tt_return"}
        \/ Returned /\ direction \in {0 - 1, 1})
          => CountKind("track") >= 1
    /\ \A i \in 1..Len(moves) :
          moves[i].kind = "track"
              => /\ direction \in {0 - 1, 1}
                 /\ moves[i].delta = direction * TrackingStep

C19_Witness ==
    /\ pc = "tt_read_current"
    /\ steps_taken = 0
    /\ previous_coef <= CoefMin
    /\ moves[Len(moves)] = [kind |-> "track", delta |-> direction * TrackingStep]

\* C20: a probe move is issued only in state Seeking and a tracking or
\* back-off move only in state Tracking, so none in state Idle; and as long
\* as no cycle has been aborted by an exception, the state is Idle or Tracking
\* whenever run_once has returned.
C20_MovesOnlyWhenActive ==
    /\ pc \in {"fd_move_positive", "fd_move_negative"} => state = SEEKING
    /\ pc \in {"tt_move", "tt_back_off"} => state = TRACKING
    /\ \A i \in 1..Len(moves) :
          moves[i].kind \in (IF state = SEEKING THEN {"probe"}
                             ELSE {"probe", "track", "backoff"})
    /\ (Returned /\ ~everRaised) => state \in {IDLE, TRACKING}

C20_Witness ==
    /\ pc = "tt_back_off"
    /\ state = TRACKING
    /\ entryState = IDLE
    /\ ~everRaised

TypeOK ==
    /\ state \in TunerState
    /\ pc \in Pcs
    /\ loop \in {"none", "running", "interrupted", "raised"}
    /\ cycles \in 0..MaxCycles
    /\ coefficient \in Coefs \cup {None}
    /\ direction \in {None, 0 - 1, 0, 1}
    /\ success \in {"none", "true", "false"}
    /\ ret \in {"none", "returned", "raised", "interrupted"}
====
